---- MODULE Spec2Model ----
(***************************************************************************)
(* A model of the chess rules engine of chess-engine/src/chess: the board, *)
(* the move-legality pipeline, move execution and the derived-state        *)
(* update of GameState::make_move, with get_legal_moves and to_fen.        *)
(*                                                                         *)
(* Option<T> values are sequences: None is <<>> and Some(x) is <<x>>.      *)
(* Enum variants are strings.  A Rust panic (a failed unwrap) is the       *)
(* result "Panic"; the state it leaves behind is the partly updated one.   *)
(***************************************************************************)
EXTENDS Integers, Sequences, FiniteSets, TLC

\* ------------------------------------------------------------------------
\* types.rs
\* ------------------------------------------------------------------------

None == <<>>

Some(x) == <<x>>

White == "White"

Black == "Black"

Color == {White, Black}

PieceType == {"Pawn", "Rook", "Knight", "Bishop", "Queen", "King"}

opposite(c) == IF c = White THEN Black ELSE White

Piece(t, c) == [piece_type |-> t, color |-> c]

Sq(f, r) == [file |-> f, rank |-> r]

Squares == {Sq(f, r) : f \in 0..7, r \in 0..7}

Abs(x) == IF x < 0 THEN -x ELSE x

Signum(x) == IF x < 0 THEN -1 ELSE IF x > 0 THEN 1 ELSE 0

MoveNew(from, to) ==
    [from |-> from, to |-> to, promotion |-> None,
     is_castling |-> FALSE, is_en_passant |-> FALSE]

MoveEnPassant(from, to) ==
    [from |-> from, to |-> to, promotion |-> None,
     is_castling |-> FALSE, is_en_passant |-> TRUE]

CastlingRightsNew ==
    [white_kingside |-> TRUE, white_queenside |-> TRUE,
     black_kingside |-> TRUE, black_queenside |-> TRUE]

can_castle(cr, color, kingside) ==
    IF color = White
    THEN (IF kingside THEN cr.white_kingside ELSE cr.white_queenside)
    ELSE (IF kingside THEN cr.black_kingside ELSE cr.black_queenside)

\* kingside is an Option<bool>: None removes both rights of the color
remove_rights(cr, color, kingside) ==
    IF color = White
    THEN IF kingside = Some(TRUE) THEN [cr EXCEPT !.white_kingside = FALSE]
         ELSE IF kingside = Some(FALSE) THEN [cr EXCEPT !.white_queenside = FALSE]
         ELSE [cr EXCEPT !.white_kingside = FALSE, !.white_queenside = FALSE]
    ELSE IF kingside = Some(TRUE) THEN [cr EXCEPT !.black_kingside = FALSE]
         ELSE IF kingside = Some(FALSE) THEN [cr EXCEPT !.black_queenside = FALSE]
         ELSE [cr EXCEPT !.black_kingside = FALSE, !.black_queenside = FALSE]

\* ------------------------------------------------------------------------
\* board.rs: squares[rank][file]
\* ------------------------------------------------------------------------

BackRank == <<"Rook", "Knight", "Bishop", "King", "Queen", "Bishop", "Knight", "Rook">>

setup_starting_position ==
    [r \in 0..7 |-> [f \in 0..7 |->
        IF r = 0 THEN Some(Piece(BackRank[f + 1], White))
        ELSE IF r = 1 THEN Some(Piece("Pawn", White))
        ELSE IF r = 6 THEN Some(Piece("Pawn", Black))
        ELSE IF r = 7 THEN Some(Piece(BackRank[f + 1], Black))
        ELSE None]]

get_piece(b, sq) == b[sq.rank][sq.file]

set_piece(b, sq, p) == [b EXCEPT ![sq.rank][sq.file] = Some(p)]

remove_piece(b, sq) == [b EXCEPT ![sq.rank][sq.file] = None]

\* the board after move_piece; an empty `from` returns early and changes nothing
move_piece(b, from, to) ==
    IF get_piece(b, from) = None THEN b
    ELSE set_piece(remove_piece(remove_piece(b, from), to), to, get_piece(b, from)[1])

HasKing(b, color) ==
    \E r \in 0..7, f \in 0..7 : b[r][f] = Some(Piece("King", color))

\* Option<Square>: the first king of the color in rank-major, file-minor order
find_king(b, color) ==
    IF ~HasKing(b, color) THEN None
    ELSE LET r == CHOOSE r \in 0..7 :
                    /\ \E f \in 0..7 : b[r][f] = Some(Piece("King", color))
                    /\ \A r2 \in 0..(r - 1) : \A f \in 0..7 : b[r2][f] # Some(Piece("King", color))
             f == CHOOSE f \in 0..7 :
                    /\ b[r][f] = Some(Piece("King", color))
                    /\ \A f2 \in 0..(f - 1) : b[r][f2] # Some(Piece("King", color))
         IN Some(Sq(f, r))

\* the squares holding a piece of the color (the scan order is rank, then file)
get_pieces(b, color) ==
    {sq \in Squares : get_piece(b, sq) # None /\ get_piece(b, sq)[1].color = color}

\* walks from `from` towards `to`, both exclusive; callers pass aligned squares
RECURSIVE PathWalk(_, _, _, _, _, _)
PathWalk(b, cf, cr, fs, rs, to) ==
    IF cf = to.file /\ cr = to.rank THEN TRUE
    ELSE IF b[cr][cf] # None THEN FALSE
    ELSE PathWalk(b, cf + fs, cr + rs, fs, rs, to)

is_path_clear(b, from, to) ==
    LET fs == Signum(to.file - from.file)
        rs == Signum(to.rank - from.rank)
    IN PathWalk(b, from.file + fs, from.rank + rs, fs, rs, to)

can_pawn_attack(from, to, color) ==
    LET direction == IF color = White THEN 1 ELSE -1
    IN Abs(to.file - from.file) = 1 /\ to.rank - from.rank = direction

can_piece_attack(b, from, to, piece) ==
    LET file_diff == Abs(to.file - from.file)
        rank_diff == Abs(to.rank - from.rank)
    IN /\ from # to
       /\ CASE piece.piece_type = "Pawn" -> can_pawn_attack(from, to, piece.color)
            [] piece.piece_type = "Rook" ->
                 (file_diff = 0 \/ rank_diff = 0) /\ is_path_clear(b, from, to)
            [] piece.piece_type = "Bishop" ->
                 file_diff = rank_diff /\ is_path_clear(b, from, to)
            [] piece.piece_type = "Queen" ->
                 (file_diff = 0 \/ rank_diff = 0 \/ file_diff = rank_diff)
                 /\ is_path_clear(b, from, to)
            [] piece.piece_type = "Knight" ->
                 (file_diff = 2 /\ rank_diff = 1) \/ (file_diff = 1 /\ rank_diff = 2)
            [] piece.piece_type = "King" -> file_diff <= 1 /\ rank_diff <= 1

is_square_attacked(b, square, by_color) ==
    \E r \in 0..7, f \in 0..7 :
        /\ b[r][f] # None
        /\ b[r][f][1].color = by_color
        /\ can_piece_attack(b, Sq(f, r), square, b[r][f][1])

\* ------------------------------------------------------------------------
\* game.rs
\* ------------------------------------------------------------------------

GameStateNew ==
    [board |-> setup_starting_position,
     current_player |-> White,
     castling_rights |-> CastlingRightsNew,
     en_passant_target |-> None,
     halfmove_clock |-> 0,
     fullmove_number |-> 1,
     status |-> "InProgress"]

\* GameStatus::Checkmate(winner), the winner being part of the variant's name
Checkmate(winner) == IF winner = White THEN "Checkmate(White)" ELSE "Checkmate(Black)"

\* IsTerminal with the Draw arm of the match left out
IsTerminal_NoDraw(status) ==
    status \in {Checkmate(White), Checkmate(Black), "Stalemate"}

IsTerminal(status) ==
    status \in {Checkmate(White), Checkmate(Black), "Stalemate", "Draw"}

\* is_legal_pawn_move that lets the two-square advance jump over a piece
is_legal_pawn_move_Jump(g, m, color) ==
    LET from == m.from
        to == m.to
        direction == IF color = White THEN 1 ELSE -1
        file_diff == to.file - from.file
        rank_diff == to.rank - from.rank
        starting_rank == IF color = White THEN 1 ELSE 6
    IN IF file_diff = 0
       THEN IF rank_diff = direction
            THEN get_piece(g.board, to) = None
            ELSE IF rank_diff = 2 * direction
            THEN /\ from.rank = starting_rank
                 /\ get_piece(g.board, to) = None
            ELSE FALSE
       ELSE IF Abs(file_diff) = 1 /\ rank_diff = direction
            THEN IF get_piece(g.board, to) # None THEN TRUE
                 ELSE IF Some(to) = g.en_passant_target THEN m.is_en_passant
                 ELSE FALSE
            ELSE FALSE

is_legal_pawn_move(g, m, color) ==
    LET from == m.from
        to == m.to
        direction == IF color = White THEN 1 ELSE -1
        file_diff == to.file - from.file
        rank_diff == to.rank - from.rank
        starting_rank == IF color = White THEN 1 ELSE 6
    IN IF file_diff = 0
       THEN IF rank_diff = direction
            THEN get_piece(g.board, to) = None
            ELSE IF rank_diff = 2 * direction
            THEN /\ from.rank = starting_rank
                 /\ get_piece(g.board, to) = None
                 /\ is_path_clear(g.board, from, to)
            ELSE FALSE
       ELSE IF Abs(file_diff) = 1 /\ rank_diff = direction
            THEN IF get_piece(g.board, to) # None THEN TRUE
                 ELSE IF Some(to) = g.en_passant_target THEN m.is_en_passant
                 ELSE FALSE
            ELSE FALSE

is_legal_rook_move(g, from, to) ==
    LET file_diff == Abs(to.file - from.file)
        rank_diff == Abs(to.rank - from.rank)
    IN (file_diff = 0 \/ rank_diff = 0) /\ is_path_clear(g.board, from, to)

is_legal_knight_move(from, to) ==
    LET file_diff == Abs(to.file - from.file)
        rank_diff == Abs(to.rank - from.rank)
    IN (file_diff = 2 /\ rank_diff = 1) \/ (file_diff = 1 /\ rank_diff = 2)

is_legal_bishop_move(g, from, to) ==
    LET file_diff == Abs(to.file - from.file)
        rank_diff == Abs(to.rank - from.rank)
    IN file_diff = rank_diff /\ file_diff > 0 /\ is_path_clear(g.board, from, to)

is_legal_queen_move(g, from, to) ==
    is_legal_rook_move(g, from, to) \/ is_legal_bishop_move(g, from, to)

\* is_legal_king_move that lets the king step up to two files
is_legal_king_move_TwoFiles(from, to) ==
    LET file_diff == Abs(to.file - from.file)
        rank_diff == Abs(to.rank - from.rank)
    IN file_diff <= 2 /\ rank_diff <= 1 /\ (file_diff > 0 \/ rank_diff > 0)

is_legal_king_move(from, to) ==
    LET file_diff == Abs(to.file - from.file)
        rank_diff == Abs(to.rank - from.rank)
    IN file_diff <= 1 /\ rank_diff <= 1 /\ (file_diff > 0 \/ rank_diff > 0)

is_in_check(g, color) ==
    IF find_king(g.board, color) # None
    THEN is_square_attacked(g.board, find_king(g.board, color)[1], opposite(color))
    ELSE FALSE

\* is_legal_castling without the test of the castling right
is_legal_castling_NoRights(g, m, color) ==
    LET from == m.from
        to == m.to
        king_start_square == IF color = White THEN Sq(4, 0) ELSE Sq(4, 7)
        squares_to_check ==
            IF to.file > from.file THEN {Sq(5, from.rank), Sq(6, from.rank)}
            ELSE {Sq(3, from.rank), Sq(2, from.rank), Sq(1, from.rank)}
    IN /\ from = king_start_square
       /\ ~is_in_check(g, color)
       /\ \A square \in squares_to_check :
            /\ ~(square # to /\ get_piece(g.board, square) # None)
            /\ (square.file <= 6 /\ square.file >= 2) =>
                 ~is_square_attacked(move_piece(g.board, from, square), square,
                                     opposite(color))

is_legal_castling(g, m, color) ==
    LET from == m.from
        to == m.to
        king_start_square == IF color = White THEN Sq(4, 0) ELSE Sq(4, 7)
        kingside == to.file > from.file
        squares_to_check ==
            IF kingside THEN {Sq(5, from.rank), Sq(6, from.rank)}
            ELSE {Sq(3, from.rank), Sq(2, from.rank), Sq(1, from.rank)}
    IN /\ from = king_start_square
       /\ can_castle(g.castling_rights, color, kingside)
       /\ ~is_in_check(g, color)
       /\ \A square \in squares_to_check :
            /\ ~(square # to /\ get_piece(g.board, square) # None)
            /\ (square.file <= 6 /\ square.file >= 2) =>
                 ~is_square_attacked(move_piece(g.board, from, square), square,
                                     opposite(color))

\* is_legal_move without the test of the destination for a piece of the
\* mover's color
is_legal_move_OwnDestination(g, m, piece) ==
    LET from == m.from
        to == m.to
    IN CASE piece.piece_type = "Pawn" -> is_legal_pawn_move(g, m, piece.color)
         [] piece.piece_type = "Rook" -> is_legal_rook_move(g, from, to)
         [] piece.piece_type = "Knight" -> is_legal_knight_move(from, to)
         [] piece.piece_type = "Bishop" -> is_legal_bishop_move(g, from, to)
         [] piece.piece_type = "Queen" -> is_legal_queen_move(g, from, to)
         [] piece.piece_type = "King" ->
              IF m.is_castling THEN is_legal_castling(g, m, piece.color)
              ELSE is_legal_king_move(from, to)

is_legal_move(g, m, piece) ==
    LET from == m.from
        to == m.to
    IN /\ ~(get_piece(g.board, to) # None /\ get_piece(g.board, to)[1].color = piece.color)
       /\ CASE piece.piece_type = "Pawn" -> is_legal_pawn_move(g, m, piece.color)
            [] piece.piece_type = "Rook" -> is_legal_rook_move(g, from, to)
            [] piece.piece_type = "Knight" -> is_legal_knight_move(from, to)
            [] piece.piece_type = "Bishop" -> is_legal_bishop_move(g, from, to)
            [] piece.piece_type = "Queen" -> is_legal_queen_move(g, from, to)
            [] piece.piece_type = "King" ->
                 IF m.is_castling THEN is_legal_castling(g, m, piece.color)
                 ELSE is_legal_king_move(from, to)

\* the scratch board of would_leave_king_in_check: the move, then the
\* en-passant removal on (to.file, from.rank) when the flag is set
ScratchBoard(g, m) ==
    LET moved == move_piece(g.board, m.from, m.to)
    IN IF m.is_en_passant THEN remove_piece(moved, Sq(m.to.file, m.from.rank))
       ELSE moved

\* find_king(..).unwrap() on the scratch board fails: no king of the mover is left
would_leave_king_in_check_panics(g, m) ==
    /\ get_piece(g.board, m.from)[1].piece_type # "King"
    /\ find_king(ScratchBoard(g, m), g.current_player) = None

would_leave_king_in_check(g, m) ==
    LET temp_board == ScratchBoard(g, m)
        piece == get_piece(g.board, m.from)[1]
        king_square == IF piece.piece_type = "King" THEN m.to
                       ELSE find_king(temp_board, g.current_player)[1]
    IN is_square_attacked(temp_board, king_square, opposite(g.current_player))

\* validate_move that tests the geometry before the owner of the piece
validate_move_GeometryFirst(g, m) ==
    IF get_piece(g.board, m.from) = None THEN "InvalidMove"
    ELSE IF ~is_legal_move(g, m, get_piece(g.board, m.from)[1]) THEN "InvalidMove"
    ELSE IF get_piece(g.board, m.from)[1].color # g.current_player THEN "NotYourTurn"
    ELSE IF would_leave_king_in_check_panics(g, m) THEN "Panic"
    ELSE IF would_leave_king_in_check(g, m) THEN "KingInCheck"
    ELSE "Ok"

\* Ok, or the ChessError kind, or Panic
validate_move(g, m) ==
    IF get_piece(g.board, m.from) = None THEN "InvalidMove"
    ELSE IF get_piece(g.board, m.from)[1].color # g.current_player THEN "NotYourTurn"
    ELSE IF ~is_legal_move(g, m, get_piece(g.board, m.from)[1]) THEN "InvalidMove"
    ELSE IF would_leave_king_in_check_panics(g, m) THEN "Panic"
    ELSE IF would_leave_king_in_check(g, m) THEN "KingInCheck"
    ELSE "Ok"

\* execute_move that leaves the pawn taken en passant on the board
execute_move_KeepsPawn(b, m) ==
    LET piece == get_piece(b, m.from)[1]
    IN IF m.is_castling
       THEN LET kingMoved == move_piece(b, m.from, m.to)
                rook_from == IF m.to.file > m.from.file THEN Sq(7, m.from.rank)
                             ELSE Sq(0, m.from.rank)
                rook_to == IF m.to.file > m.from.file THEN Sq(5, m.from.rank)
                           ELSE Sq(3, m.from.rank)
            IN move_piece(kingMoved, rook_from, rook_to)
       ELSE LET moved == move_piece(b, m.from, m.to)
            IN IF m.promotion # None
               THEN set_piece(moved, m.to, Piece(m.promotion[1], piece.color))
               ELSE moved

\* the board after execute_move
execute_move(b, m) ==
    LET piece == get_piece(b, m.from)[1]
    IN IF m.is_castling
       THEN LET kingMoved == move_piece(b, m.from, m.to)
                rook_from == IF m.to.file > m.from.file THEN Sq(7, m.from.rank)
                             ELSE Sq(0, m.from.rank)
                rook_to == IF m.to.file > m.from.file THEN Sq(5, m.from.rank)
                           ELSE Sq(3, m.from.rank)
            IN move_piece(kingMoved, rook_from, rook_to)
       ELSE LET moved == move_piece(b, m.from, m.to)
                captured == IF m.is_en_passant
                            THEN remove_piece(moved, Sq(m.to.file, m.from.rank))
                            ELSE moved
            IN IF m.promotion # None
               THEN set_piece(captured, m.to, Piece(m.promotion[1], piece.color))
               ELSE captured

\* update_castling_rights that derives the rights from where kings and rooks
\* stand after the move
update_castling_rights_FromBoard(g, m) ==
    LET held(color, file) ==
            /\ get_piece(g.board, Sq(4, IF color = White THEN 0 ELSE 7))
                  = Some(Piece("King", color))
            /\ get_piece(g.board, Sq(file, IF color = White THEN 0 ELSE 7))
                  = Some(Piece("Rook", color))
    IN [g EXCEPT !.castling_rights =
           [white_kingside |-> held(White, 7), white_queenside |-> held(White, 0),
            black_kingside |-> held(Black, 7), black_queenside |-> held(Black, 0)]]

\* g.board is the board after execute_move, with a piece on m.to
update_castling_rights(g, m) ==
    LET piece == get_piece(g.board, m.to)[1]
        rank == IF piece.color = White THEN 0 ELSE 7
    IN IF piece.piece_type = "King"
       THEN [g EXCEPT !.castling_rights = remove_rights(@, piece.color, None)]
       ELSE IF piece.piece_type = "Rook"
       THEN IF m.from = Sq(0, rank)
            THEN [g EXCEPT !.castling_rights = remove_rights(@, piece.color, Some(FALSE))]
            ELSE IF m.from = Sq(7, rank)
            THEN [g EXCEPT !.castling_rights = remove_rights(@, piece.color, Some(TRUE))]
            ELSE g
       ELSE g

update_en_passant(g, m) ==
    LET piece == get_piece(g.board, m.to)[1]
        rank_diff == Abs(m.to.rank - m.from.rank)
        target_rank == (m.from.rank + m.to.rank) \div 2
    IN IF piece.piece_type = "Pawn" /\ rank_diff = 2
       THEN [g EXCEPT !.en_passant_target = Some(Sq(m.to.file, target_rank))]
       ELSE [g EXCEPT !.en_passant_target = None]

update_clocks(g, m) ==
    LET piece == get_piece(g.board, m.to)[1]
    IN IF piece.piece_type = "Pawn" \/ m.is_en_passant
       THEN [g EXCEPT !.halfmove_clock = 0]
       ELSE [g EXCEPT !.halfmove_clock = @ + 1]

\* switch_player that counts every ply as a full move
switch_player_CountsPlies(g) ==
    [g EXCEPT !.current_player = opposite(g.current_player),
              !.fullmove_number = @ + 1]

\* switch_player with the result of opposite() dropped
switch_player_NoFlip(g) ==
    [g EXCEPT !.fullmove_number = IF g.current_player = White THEN @ + 1 ELSE @]

switch_player(g) ==
    LET next == opposite(g.current_player)
    IN [g EXCEPT !.current_player = next,
                 !.fullmove_number = IF next = White THEN @ + 1 ELSE @]

\* the scan of has_legal_moves stops at the first candidate that passes; a
\* candidate reaches would_leave_king_in_check only if is_legal_move holds
has_legal_moves(g) ==
    \E from \in get_pieces(g.board, g.current_player) : \E to \in Squares :
        /\ is_legal_move(g, MoveNew(from, to), get_piece(g.board, from)[1])
        /\ ~would_leave_king_in_check(g, MoveNew(from, to))

\* without a king of the side to move every candidate that passes
\* is_legal_move fails the unwrap; with one, no candidate does
has_legal_moves_panics(g) ==
    /\ ~HasKing(g.board, g.current_player)
    /\ \E from \in get_pieces(g.board, g.current_player) : \E to \in Squares :
         is_legal_move(g, MoveNew(from, to), get_piece(g.board, from)[1])

\* update_status with the draw test written > 50
update_status_StrictClock(g) ==
    LET in_check == is_in_check(g, g.current_player)
        has_moves == has_legal_moves(g)
        st == IF ~has_moves
              THEN (IF in_check THEN Checkmate(opposite(g.current_player)) ELSE "Stalemate")
              ELSE IF in_check THEN "Check" ELSE "InProgress"
    IN [g EXCEPT !.status = IF g.halfmove_clock > 50 THEN "Draw" ELSE st]

update_status(g) ==
    LET in_check == is_in_check(g, g.current_player)
        has_moves == has_legal_moves(g)
        st == IF ~has_moves
              THEN (IF in_check THEN Checkmate(opposite(g.current_player)) ELSE "Stalemate")
              ELSE IF in_check THEN "Check" ELSE "InProgress"
    IN [g EXCEPT !.status = IF g.halfmove_clock >= 50 THEN "Draw" ELSE st]

\* make_move with execute_move run before validate_move
make_move_ExecFirst(g, m) ==
    IF IsTerminal(g.status) THEN [result |-> "GameOver", game |-> g]
    ELSE IF validate_move(g, m) # "Ok"
    THEN [result |-> validate_move(g, m),
          game |-> IF get_piece(g.board, m.from) # None
                   THEN [g EXCEPT !.board = execute_move(g.board, m)] ELSE g]
    ELSE LET executed == [g EXCEPT !.board = execute_move(g.board, m)]
         IN IF get_piece(executed.board, m.to) = None
            THEN [result |-> "Panic", game |-> executed]
            ELSE LET updated ==
                         switch_player(
                           update_clocks(
                             update_en_passant(
                               update_castling_rights(executed, m), m), m))
                 IN IF has_legal_moves_panics(updated)
                    THEN [result |-> "Panic", game |-> updated]
                    ELSE [result |-> "Ok", game |-> update_status(updated)]

\* make_move as a function of the state and the move: the result (Ok, an
\* error kind, or Panic) and the state the call leaves behind
make_move(g, m) ==
    IF IsTerminal(g.status) THEN [result |-> "GameOver", game |-> g]
    ELSE IF validate_move(g, m) # "Ok" THEN [result |-> validate_move(g, m), game |-> g]
    ELSE LET executed == [g EXCEPT !.board = execute_move(g.board, m)]
         IN IF get_piece(executed.board, m.to) = None
            THEN [result |-> "Panic", game |-> executed]
            ELSE LET updated ==
                         switch_player(
                           update_clocks(
                             update_en_passant(
                               update_castling_rights(executed, m), m), m))
                 IN IF has_legal_moves_panics(updated)
                    THEN [result |-> "Panic", game |-> updated]
                    ELSE [result |-> "Ok", game |-> update_status(updated)]

\* the scan file by file: for file in 0..8, for rank in 0..8
SquareSeq_FileMajor == [i \in 1..64 |-> Sq((i - 1) \div 8, (i - 1) % 8)]

\* the 64 squares in scan order: rank 0..7, within a rank file 0..7
SquareSeq == [i \in 1..64 |-> Sq((i - 1) % 8, (i - 1) \div 8)]

\* the candidate get_legal_moves builds for (from, to): Move::new with
\* is_castling and is_en_passant set from the geometry
Candidate(g, from, to) ==
    LET piece == get_piece(g.board, from)[1]
    IN [from |-> from, to |-> to, promotion |-> None,
        is_castling |-> (piece.piece_type = "King" /\ Abs(to.file - from.file) = 2),
        is_en_passant |-> (piece.piece_type = "Pawn" /\ Some(to) = g.en_passant_target)]

CandidatePasses(g, m) ==
    /\ is_legal_move(g, m, get_piece(g.board, m.from)[1])
    /\ ~would_leave_king_in_check(g, m)

\* Expand that pushes a promoting pawn move once, as a queen promotion
Expand_QueenOnly(g, m) ==
    LET piece == get_piece(g.board, m.from)[1]
        promotion_rank == IF piece.color = White THEN 7 ELSE 0
    IN IF piece.piece_type = "Pawn" /\ m.to.rank = promotion_rank
       THEN <<[m EXCEPT !.promotion = Some("Queen")]>>
       ELSE <<m>>

\* what one passing candidate pushes: four promotions for a pawn reaching
\* its promotion rank, else the candidate itself
Expand(g, m) ==
    LET piece == get_piece(g.board, m.from)[1]
        promotion_rank == IF piece.color = White THEN 7 ELSE 0
    IN IF piece.piece_type = "Pawn" /\ m.to.rank = promotion_rank
       THEN <<[m EXCEPT !.promotion = Some("Queen")],
              [m EXCEPT !.promotion = Some("Rook")],
              [m EXCEPT !.promotion = Some("Bishop")],
              [m EXCEPT !.promotion = Some("Knight")]>>
       ELSE <<m>>

RECURSIVE Flatten(_, _)
Flatten(g, ms) ==
    IF ms = <<>> THEN <<>> ELSE Expand(g, Head(ms)) \o Flatten(g, Tail(ms))

\* the unwrap in would_leave_king_in_check fails for the first candidate
\* that passes is_legal_move when the side to move has no king
get_legal_moves_panics(g) ==
    /\ ~HasKing(g.board, g.current_player)
    /\ \E from \in get_pieces(g.board, g.current_player) : \E to \in Squares :
         is_legal_move(g, Candidate(g, from, to), get_piece(g.board, from)[1])

get_legal_moves(g) ==
    LET pieces == SelectSeq(SquareSeq,
                    LAMBDA sq : /\ get_piece(g.board, sq) # None
                                /\ get_piece(g.board, sq)[1].color = g.current_player)
        candidates == [k \in 1..(64 * Len(pieces)) |->
                         Candidate(g, pieces[((k - 1) \div 64) + 1], SquareSeq[((k - 1) % 64) + 1])]
    IN Flatten(g, SelectSeq(candidates, LAMBDA m : CandidatePasses(g, m)))

piece_char(piece) ==
    LET lower == CASE piece.piece_type = "Pawn" -> "p"
                   [] piece.piece_type = "Rook" -> "r"
                   [] piece.piece_type = "Knight" -> "n"
                   [] piece.piece_type = "Bishop" -> "b"
                   [] piece.piece_type = "Queen" -> "q"
                   [] piece.piece_type = "King" -> "k"
        upper == CASE piece.piece_type = "Pawn" -> "P"
                   [] piece.piece_type = "Rook" -> "R"
                   [] piece.piece_type = "Knight" -> "N"
                   [] piece.piece_type = "Bishop" -> "B"
                   [] piece.piece_type = "Queen" -> "Q"
                   [] piece.piece_type = "King" -> "K"
    IN IF piece.color = White THEN upper ELSE lower

\* one rank of the piece placement, from `file` on, with empty_count empty
\* squares not yet written
RECURSIVE FenRank(_, _, _, _)
FenRank(b, rank, file, empty_count) ==
    IF file = 8 THEN (IF empty_count > 0 THEN ToString(empty_count) ELSE "")
    ELSE IF b[rank][file] # None
         THEN (IF empty_count > 0 THEN ToString(empty_count) ELSE "")
              \o piece_char(b[rank][file][1]) \o FenRank(b, rank, file + 1, 0)
         ELSE FenRank(b, rank, file + 1, empty_count + 1)

\* ranks `rank` down to 0, separated by "/"
RECURSIVE FenPlacement(_, _)
FenPlacement(b, rank) ==
    FenRank(b, rank, 0, 0)
    \o (IF rank > 0 THEN "/" \o FenPlacement(b, rank - 1) ELSE "")

FileChar == <<"a", "b", "c", "d", "e", "f", "g", "h">>

to_algebraic(sq) == FileChar[sq.file + 1] \o ToString(sq.rank + 1)

to_fen(g) ==
    LET cr == g.castling_rights
        castling == (IF cr.white_kingside THEN "K" ELSE "")
                    \o (IF cr.white_queenside THEN "Q" ELSE "")
                    \o (IF cr.black_kingside THEN "k" ELSE "")
                    \o (IF cr.black_queenside THEN "q" ELSE "")
    IN FenPlacement(g.board, 7)
       \o " " \o (IF g.current_player = White THEN "w" ELSE "b")
       \o " " \o (IF castling = "" THEN "-" ELSE castling)
       \o " " \o (IF g.en_passant_target # None
                  THEN to_algebraic(g.en_passant_target[1]) ELSE "-")
       \o " " \o ToString(g.halfmove_clock) \o " " \o ToString(g.fullmove_number)

\* ------------------------------------------------------------------------
\* The state machine: one game, driven by a sequence of make_move calls.
\* A run first submits the moves of one opening line, then one arbitrary
\* Move value.
\* ------------------------------------------------------------------------

FileOf == [a |-> 0, b |-> 1, c |-> 2, d |-> 3, e |-> 4, f |-> 5, g |-> 6, h |-> 7]

\* the square named by a file letter and a rank digit, as Square::from_algebraic
At(fileName, rankNo) == Sq(FileOf[fileName], rankNo - 1)

Mv(f1, r1, f2, r2) == MoveNew(At(f1, r1), At(f2, r2))

\* the promotion names a move request may carry
PromotionNames == {"Queen", "Rook", "Bishop", "Knight"}

\* MoveRequest::to_move on parsed squares: promotion is None or Some(name)
\* with the name in PromotionNames (any other name is an Err, no Move)
to_move(from, to, promotion) ==
    LET chess_move == [MoveNew(from, to) EXCEPT !.promotion = promotion]
    IN IF (from.rank = 0 \/ from.rank = 7) /\ from.file = 4
          /\ (to.file = 6 \/ to.file = 2)
       THEN [chess_move EXCEPT !.is_castling = TRUE]
       ELSE chess_move

\* the number of plies of the knight shuffle that runs the halfmove clock up
ShufflePlies == 50

ShuffleMove(i) ==
    CASE i % 4 = 1 -> Mv("g", 1, "f", 3)
      [] i % 4 = 2 -> Mv("g", 8, "f", 6)
      [] i % 4 = 3 -> Mv("f", 3, "g", 1)
      [] i % 4 = 0 -> Mv("f", 6, "g", 8)

Shuffle(n) == [i \in 1..n |-> ShuffleMove(i)]

FoolsMate == <<Mv("f", 2, "f", 3), Mv("e", 7, "e", 5), Mv("g", 2, "g", 4), Mv("d", 8, "h", 4)>>

MirrorMate == <<Mv("c", 2, "c", 3), Mv("d", 7, "d", 5), Mv("b", 2, "b", 4), Mv("e", 8, "a", 4)>>

BishopCheck ==
    <<Mv("h", 2, "h", 4), Mv("g", 7, "g", 5), Mv("e", 2, "e", 4), Mv("d", 7, "d", 6),
      Mv("a", 2, "a", 3), Mv("c", 8, "g", 4)>>

EnPassantLine ==
    <<Mv("e", 2, "e", 4), Mv("a", 7, "a", 6), Mv("e", 4, "e", 5), Mv("d", 7, "d", 5)>>

KingTaken == <<[Mv("g", 1, "f", 3) EXCEPT !.is_castling = TRUE]>>

\* four pawn moves, then the shuffle: Black to move, one ply short of the draw
DrawOverMate ==
    <<Mv("c", 2, "c", 3), Mv("d", 7, "d", 5), Mv("b", 2, "b", 4), Mv("a", 7, "a", 6)>>
    \o Shuffle(ShufflePlies - 1)

StalemateLine ==
    <<Mv("d", 2, "d", 3), Mv("h", 7, "h", 5), Mv("e", 1, "a", 5), Mv("h", 8, "h", 6),
      Mv("a", 5, "h", 5), Mv("a", 7, "a", 5), Mv("a", 2, "a", 4), Mv("h", 6, "a", 6),
      Mv("h", 5, "f", 7), Mv("c", 7, "c", 6), Mv("f", 7, "e", 7), Mv("d", 8, "c", 7),
      Mv("e", 7, "g", 7), Mv("e", 8, "e", 3), Mv("g", 7, "g", 8), Mv("e", 3, "a", 7),
      Mv("g", 8, "f", 8), Mv("c", 7, "b", 6), Mv("f", 8, "d", 6)>>

\* the white king on c3 behind its e5 pawn, shielded from the g7 bishop by
\* that pawn; then Black's d7-d5 beside it
PinnedEnPassant ==
    <<Mv("e", 2, "e", 4), Mv("g", 7, "g", 6), Mv("e", 4, "e", 5), Mv("f", 8, "g", 7),
      Mv("c", 2, "c", 4), Mv("a", 7, "a", 6), Mv("d", 1, "c", 2), Mv("a", 6, "a", 5),
      Mv("c", 2, "c", 3), Mv("d", 7, "d", 5)>>

\* both kings walk to the e-file squares e1 and e8, f1 and g1 stand empty
KingHome ==
    <<Mv("g", 1, "f", 3), Mv("g", 8, "f", 6), Mv("g", 2, "g", 3), Mv("g", 7, "g", 6),
      Mv("f", 1, "g", 2), Mv("f", 8, "g", 7), Mv("e", 2, "e", 3), Mv("e", 7, "e", 6),
      Mv("e", 1, "e", 2), Mv("e", 8, "e", 7), Mv("d", 1, "e", 1), Mv("d", 8, "e", 8)>>

\* a white pawn reaches a7 and may take the knight on b8
PromotionLine ==
    <<Mv("a", 2, "a", 4), Mv("b", 7, "b", 5), Mv("a", 4, "b", 5), Mv("a", 7, "a", 6),
      Mv("b", 5, "a", 6), Mv("h", 7, "h", 6), Mv("a", 6, "a", 7), Mv("h", 6, "h", 5)>>

\* the white king on a4 behind its pawns a3 and b3, a white pawn on c5; then
\* Black's b7-b5 gives check, and c5 takes b5 en passant is the one way out
EnPassantOnly ==
    <<Mv("c", 2, "c", 4), Mv("a", 7, "a", 6), Mv("c", 4, "c", 5), Mv("b", 8, "c", 6),
      Mv("d", 1, "c", 2), Mv("h", 7, "h", 6), Mv("c", 2, "b", 3), Mv("h", 6, "h", 5),
      Mv("b", 3, "a", 4), Mv("h", 5, "h", 4), Mv("b", 2, "b", 3), Mv("g", 7, "g", 6),
      Mv("a", 2, "a", 3), Mv("b", 7, "b", 5)>>

\* the d-pawn steps aside: the queen on e1 may go to d2 and c3
QueenRequest == <<Mv("d", 2, "d", 3), Mv("a", 7, "a", 6)>>

\* the white bishop on b2 looks down the long diagonal at the rook on h8
RookCorner ==
    <<Mv("b", 2, "b", 3), Mv("g", 7, "g", 6), Mv("c", 1, "b", 2), Mv("a", 7, "a", 6)>>

Lines ==
    <<<<>>, FoolsMate, MirrorMate, BishopCheck, EnPassantLine, KingTaken,
      StalemateLine, DrawOverMate, Shuffle(ShufflePlies),
      PinnedEnPassant, KingHome, PromotionLine, EnPassantOnly,
      QueenRequest, RookCorner>>

\* ------------------------------------------------------------------------
\* types.rs: Square::new, from_algebraic, to_algebraic on texts.  A text is
\* the sequence of its chars, a char its code point.
\* ------------------------------------------------------------------------

\* the values of a u8
U8 == 0..255

SquareNew(file, rank) == IF file < 8 /\ rank < 8 THEN Some(Sq(file, rank)) ELSE None

\* the number of bytes of a char in a &str
Utf8Len(c) == IF c < 128 THEN 1 ELSE IF c < 2048 THEN 2 ELSE IF c < 65536 THEN 3 ELSE 4

\* notation.len(): the length in bytes
RECURSIVE StrLen(_)
StrLen(text) == IF text = <<>> THEN 0 ELSE Utf8Len(Head(text)) + StrLen(Tail(text))

\* what a call returns: a value, or no return when it panics
Returned(v) == [panic |-> FALSE, value |-> v]

Panicked == [panic |-> TRUE, value |-> None]

\* from_algebraic with the rank digit counted from '0'
from_algebraic_FromZero(notation) ==
    IF StrLen(notation) # 2 THEN Returned(None)
    ELSE IF Len(notation) < 2 THEN Panicked
    ELSE LET c0 == notation[1] % 256
             c1 == notation[2] % 256
         IN IF c0 < 97 \/ c1 < 48 THEN Returned(None)
            ELSE Returned(SquareNew(c0 - 97, c1 - 48))

\* chars[1] is out of bounds for one char of two bytes; `as u8` keeps the
\* low byte; checked_sub is None below b'a' (97) and b'1' (49)
from_algebraic(notation) ==
    IF StrLen(notation) # 2 THEN Returned(None)
    ELSE IF Len(notation) < 2 THEN Panicked
    ELSE LET c0 == notation[1] % 256
             c1 == notation[2] % 256
         IN IF c0 < 97 \/ c1 < 49 THEN Returned(None)
            ELSE Returned(SquareNew(c0 - 97, c1 - 49))

\* to_algebraic as chars: (b'a' + file) as char, (b'1' + rank) as char
to_algebraic_chars(sq) == <<(97 + sq.file) % 256, (49 + sq.rank) % 256>>

\* the chars a caller may put in a text: ASCII, and three chars of two bytes
\* whose low bytes are 'i' + 128, '1' and 'a'
Chars == (0..127) \cup {233, 305, 353}

\* the texts handed to from_algebraic: every text of two chars, and some
\* shorter and longer ones
Texts ==
    {<<c0, c1>> : c0 \in Chars, c1 \in Chars}
    \cup {<<>>, <<97>>, <<233>>, <<353>>, <<97, 49, 49>>, <<97, 49, 32>>}

VARIABLES game, prev, lastMove, result, accepted, line, calls, input, output,
          games, mutex, tasks, served

vars == <<game, prev, lastMove, result, accepted, line, calls, input, output,
          games, mutex, tasks, served>>

\* the state of the game under make_move and of the calls on squares
engineVars == <<game, prev, lastMove, result, accepted, line, calls, input, output>>

\* the state of the HTTP service: the game store, its mutex, the request
\* tasks and the number of requests received
serviceVars == <<games, mutex, tasks, served>>

\* the ids that create_new_game hands out, in this order
NewIds == <<"g1", "g2">>

GameIds == {NewIds[i] : i \in 1..Len(NewIds)}

\* the tasks that run make_move requests at the same time
Tasks == {1, 2}

\* a request as deserialized: two texts and an optional promotion name
MoveRequest(from, to, promotion) == [from |-> from, to |-> to, promotion |-> promotion]

NoRequest == MoveRequest(<<>>, <<>>, None)

\* a task between two requests, with the answer it gave to the last one
IdleTask(response) ==
    [pc |-> "idle", game_id |-> "", request |-> NoRequest, move |-> None,
     seen |-> None, response |-> response]

\* main.rs: an empty store behind an unlocked mutex, no request yet
ServiceIdle ==
    /\ games = [id \in GameIds |-> None]
    /\ mutex = [holder |-> None, poisoned |-> FALSE]
    /\ tasks = [t \in Tasks |-> IdleTask("none")]
    /\ served = 0

\* no call on squares was made
NoInput == [kind |-> "none", file |-> 0, rank |-> 0, text |-> <<>>]

NotCalled == [called |-> FALSE, panic |-> FALSE, value |-> None]

Called(r) == [called |-> TRUE, panic |-> r.panic, value |-> r.value]

PromotionInputs == {None} \cup {Some(t) : t \in PieceType}

Moves ==
    [from : Squares, to : Squares, promotion : PromotionInputs,
     is_castling : BOOLEAN, is_en_passant : BOOLEAN]

Init ==
    /\ game = GameStateNew
    /\ prev = GameStateNew
    /\ lastMove = None
    /\ result = "None"
    /\ accepted = 0
    /\ line \in 1..Len(Lines)
    /\ calls = 0
    /\ input = NoInput
    /\ output = NotCalled
    /\ ServiceIdle

\* the moves the caller may submit next
Inputs ==
    IF calls < Len(Lines[line]) THEN {Lines[line][calls + 1]}
    ELSE IF calls = Len(Lines[line]) THEN Moves
    ELSE {}

MakeMove(m) ==
    /\ LET r == make_move(game, m)
       IN /\ game' = r.game
          /\ result' = r.result
          /\ accepted' = IF r.result = "Ok" THEN accepted + 1 ELSE accepted
    /\ prev' = game
    /\ lastMove' = Some(m)
    /\ calls' = calls + 1
    /\ UNCHANGED <<line, input, output>>
    /\ UNCHANGED serviceVars

\* a panic ends the run: the call never returns
Next ==
    /\ result # "Panic"
    /\ \E m \in Inputs : MakeMove(m)

Spec == Init /\ [][Next]_vars

\* the moves a player submits: those the request layer builds from two
\* squares and an optional promotion name, and the en-passant captures that
\* get_legal_moves offers
PlayerMoves ==
    {to_move(from, to, p) :
        from \in Squares, to \in Squares, p \in {None} \cup {Some(n) : n \in PromotionNames}}
    \cup {MoveEnPassant(from, to) : from \in Squares, to \in Squares}

PlayerInputs ==
    IF calls < Len(Lines[line]) THEN {Lines[line][calls + 1]}
    ELSE IF calls = Len(Lines[line]) THEN PlayerMoves
    ELSE {}

\* the same game, the probing move drawn from PlayerMoves
PlayerNext ==
    /\ result # "Panic"
    /\ \E m \in PlayerInputs : MakeMove(m)

PlayerSpec == Init /\ [][PlayerNext]_vars

\* ------------------------------------------------------------------------
\* The functions on squares, each applied to an input chosen at the start:
\* two u8 coordinates for Square::new, a text for from_algebraic.
\* ------------------------------------------------------------------------

SquareInit ==
    /\ game = GameStateNew
    /\ prev = GameStateNew
    /\ lastMove = None
    /\ result = "None"
    /\ accepted = 0
    /\ line = 1
    /\ calls = 0
    /\ input \in [kind : {"new"}, file : U8, rank : U8, text : {<<>>}]
                \cup [kind : {"text"}, file : {0}, rank : {0}, text : Texts]
    /\ output = NotCalled
    /\ ServiceIdle

CallSquareNew ==
    /\ input.kind = "new"
    /\ ~output.called
    /\ output' = Called(Returned(SquareNew(input.file, input.rank)))
    /\ UNCHANGED <<game, prev, lastMove, result, accepted, line, calls, input>>
    /\ UNCHANGED serviceVars

\* the square just built is written out; the text is the next input
CallToAlgebraic ==
    /\ input.kind = "new"
    /\ output.called
    /\ output.value # None
    /\ input' = [kind |-> "text", file |-> input.file, rank |-> input.rank,
                 text |-> to_algebraic_chars(output.value[1])]
    /\ output' = NotCalled
    /\ UNCHANGED <<game, prev, lastMove, result, accepted, line, calls>>
    /\ UNCHANGED serviceVars

CallFromAlgebraic ==
    /\ input.kind = "text"
    /\ ~output.called
    /\ output' = Called(from_algebraic(input.text))
    /\ UNCHANGED <<game, prev, lastMove, result, accepted, line, calls, input>>
    /\ UNCHANGED serviceVars

SquareNext == CallSquareNew \/ CallToAlgebraic \/ CallFromAlgebraic

SquareSpec == SquareInit /\ [][SquareNext]_vars

\* ------------------------------------------------------------------------
\* api/handlers.rs: the make_move handler over the shared GameStore, an
\* Arc<Mutex<HashMap<String, GameState>>>.  Each request runs in a task of
\* its own; the steps of a task are the points at which another task may
\* run.  A panic unwinds the task: the guard it holds is dropped, which
\* poisons the mutex, and the request ends without an answer.
\* ------------------------------------------------------------------------

\* the requests received at most
MaxRequests == 5

\* the text of a square, e.g. "d2"
Txt(fileName, rankNo) == to_algebraic_chars(At(fileName, rankNo))

\* the bodies of the requests: four moves that are accepted one after the
\* other, a source text of one two-byte char, a destination that is not a
\* square, and a promotion name that is not one
MoveRequests ==
    {MoveRequest(Txt("d", 2), Txt("d", 3), None),
     MoveRequest(Txt("a", 7), Txt("a", 6), None),
     MoveRequest(Txt("e", 1), Txt("c", 3), None),
     MoveRequest(Txt("a", 6), Txt("a", 5), None),
     MoveRequest(<<233>>, Txt("d", 3), None),
     MoveRequest(Txt("d", 2), <<122, 57>>, None),
     MoveRequest(Txt("d", 2), Txt("d", 3), Some("King"))}

\* MoveRequest::to_move on the texts of a request
request_to_move(req) ==
    LET from == from_algebraic(req.from)
        to == from_algebraic(req.to)
    IN IF from.panic THEN [outcome |-> "Panic", move |-> None]
       ELSE IF from.value = None THEN [outcome |-> "Err", move |-> None]
       ELSE IF to.panic THEN [outcome |-> "Panic", move |-> None]
       ELSE IF to.value = None THEN [outcome |-> "Err", move |-> None]
       ELSE IF req.promotion # None /\ req.promotion[1] \notin PromotionNames
       THEN [outcome |-> "Err", move |-> None]
       ELSE [outcome |-> "Ok",
             move |-> Some(to_move(from.value[1], to.value[1], req.promotion))]

Unlocked(poisoned) == [holder |-> None, poisoned |-> poisoned]

\* the task ends its request with the given answer
Answer(t, response) == tasks' = [tasks EXCEPT ![t] = IdleTask(response)]

\* create_new_game: a new game under a fresh id, inserted under the lock
CreateNewGame ==
    /\ mutex = Unlocked(FALSE)
    /\ \E i \in 1..Len(NewIds) :
          /\ games[NewIds[i]] = None
          /\ \A j \in 1..(i - 1) : games[NewIds[j]] # None
          /\ games' = [games EXCEPT ![NewIds[i]] = Some(GameStateNew)]
    /\ UNCHANGED <<mutex, tasks, served>>
    /\ UNCHANGED engineVars

\* a request for a game id arrives and gets a task
Receive(t) ==
    /\ tasks[t].pc = "idle"
    /\ served < MaxRequests
    /\ \E id \in GameIds, req \in MoveRequests :
          tasks' = [tasks EXCEPT ![t] =
                       [pc |-> "received", game_id |-> id, request |-> req,
                        move |-> None, seen |-> None, response |-> "none"]]
    /\ served' = served + 1
    /\ UNCHANGED <<games, mutex>>
    /\ UNCHANGED engineVars

\* handlers.rs 99-108: the request is turned into a Move before the lock is
\* taken
ToMove(t) ==
    /\ tasks[t].pc = "received"
    /\ LET r == request_to_move(tasks[t].request)
       IN IF r.outcome = "Panic" THEN Answer(t, "Aborted")
          ELSE IF r.outcome = "Err" THEN Answer(t, "BAD_REQUEST")
          ELSE tasks' = [tasks EXCEPT ![t].pc = "parsed", ![t].move = r.move]
    /\ UNCHANGED <<games, mutex, served>>
    /\ UNCHANGED engineVars

\* handlers.rs 110: games.lock().unwrap() waits for the mutex and panics when
\* it is poisoned
Lock(t) ==
    /\ tasks[t].pc = "parsed"
    /\ mutex.holder = None
    /\ IF mutex.poisoned
       THEN Answer(t, "Aborted") /\ UNCHANGED mutex
       ELSE /\ mutex' = [mutex EXCEPT !.holder = Some(t)]
            /\ tasks' = [tasks EXCEPT ![t].pc = "locked"]
    /\ UNCHANGED <<games, served>>
    /\ UNCHANGED engineVars

\* handlers.rs 112, 130-138: get_mut(&game_id); an unknown id is answered
\* and the guard is dropped
GetMut(t) ==
    /\ tasks[t].pc = "locked"
    /\ IF games[tasks[t].game_id] = None
       THEN Answer(t, "NOT_FOUND") /\ mutex' = Unlocked(FALSE)
       ELSE /\ tasks' = [tasks EXCEPT ![t].pc = "found",
                                      ![t].seen = games[tasks[t].game_id]]
            /\ UNCHANGED mutex
    /\ UNCHANGED <<games, served>>
    /\ UNCHANGED engineVars

\* handlers.rs 113-129: make_move on the game in the store, the answer, and
\* the guard dropped at the end of the handler or by the unwinding
CallMakeMove(t) ==
    /\ tasks[t].pc = "found"
    /\ LET id == tasks[t].game_id
           r == make_move(games[id][1], tasks[t].move[1])
       IN /\ games' = [games EXCEPT ![id] = Some(r.game)]
          /\ mutex' = Unlocked(r.result = "Panic")
          /\ Answer(t, IF r.result = "Ok" THEN "OK"
                       ELSE IF r.result = "Panic" THEN "Aborted"
                       ELSE "BAD_REQUEST")
    /\ UNCHANGED served
    /\ UNCHANGED engineVars

ServiceInit ==
    /\ game = GameStateNew
    /\ prev = GameStateNew
    /\ lastMove = None
    /\ result = "None"
    /\ accepted = 0
    /\ line = 1
    /\ calls = 0
    /\ input = NoInput
    /\ output = NotCalled
    /\ ServiceIdle

ServiceNext ==
    \/ CreateNewGame
    \/ \E t \in Tasks : Receive(t)
    \/ \E t \in Tasks : ToMove(t)
    \/ \E t \in Tasks : Lock(t)
    \/ \E t \in Tasks : GetMut(t)
    \/ \E t \in Tasks : CallMakeMove(t)

ServiceSpec == ServiceInit /\ [][ServiceNext]_vars

\* ------------------------------------------------------------------------
\* Properties
\* ------------------------------------------------------------------------

ErrorKinds == {"InvalidMove", "NotYourTurn", "KingInCheck", "GameOver"}

TerminalStatuses == {"Checkmate(White)", "Checkmate(Black)", "Stalemate", "Draw"}

InSeq(x, xs) == \E i \in 1..Len(xs) : xs[i] = x

\* C1: a make_move call that returns an error leaves board, current_player,
\* castling_rights, en_passant_target, halfmove_clock, fullmove_number and
\* status exactly as they were before the call.
C1_RejectionLeavesStateUnchanged ==
    result \in ErrorKinds => game = prev

\* a geometrically legal move rejected because it leaves the king attacked
C1_Witness ==
    /\ result = "KingInCheck"
    /\ game = prev
    /\ game.status = "Check"

\* a legal move is sound in g: make_move accepts it and the mover's king is
\* not attacked afterwards
LegalMoveSound(g, m) ==
    LET r == make_move(g, m)
    IN r.result = "Ok" /\ ~is_in_check(r.game, g.current_player)

\* C2: in every state reachable from a new game, every move returned by
\* get_legal_moves is accepted by make_move and leaves the mover's own king
\* not attacked.  (A rejected call leaves the state as it was, so the states
\* after construction and after accepted calls are all the reachable ones.)
C2_LegalMovesSound ==
    result \in {"None", "Ok"} =>
        /\ ~get_legal_moves_panics(game)
        /\ LET ms == get_legal_moves(game)
           IN \A i \in 1..Len(ms) : LegalMoveSound(game, ms[i])

\* C3: after any make_move call that returns Ok, whatever the promotion,
\* is_castling and is_en_passant fields of the move, the king of the player
\* who just moved is not attacked by the opponent.
C3_MoverKingNotAttacked ==
    result = "Ok" => ~is_in_check(game, prev.current_player)

\* C4: in a non-terminal state a Move (all five fields compared) that is not
\* an element of get_legal_moves() is rejected with InvalidMove, NotYourTurn
\* or KingInCheck.
C4_Completeness ==
    (lastMove # None /\ prev.status \notin TerminalStatuses) =>
        \/ result \in {"InvalidMove", "NotYourTurn", "KingInCheck"}
        \/ InSeq(lastMove[1], get_legal_moves(prev))

\* C5: every call that returns Ok flips current_player exactly once, a
\* rejected call does not change it, and after n accepted moves the side to
\* move is White iff n is even.
C5_TurnAlternation ==
    result # "Panic" =>
        /\ (game.current_player = White) <=> (accepted % 2 = 0)
        /\ result = "Ok" => game.current_player = opposite(prev.current_player)
        /\ result \in ErrorKinds => game.current_player = prev.current_player

C5_Witness ==
    /\ result = "Ok"
    /\ accepted = 3
    /\ game.current_player = Black
    /\ prev.current_player = White

\* C6: once status is Checkmate, Stalemate or Draw, every make_move call,
\* for any Move, returns GameOver and leaves the state unchanged.
C6_TerminalAbsorbing ==
    (lastMove # None /\ prev.status \in TerminalStatuses) =>
        (result = "GameOver" /\ game = prev)

\* a call on a drawn game whose source square is empty: GameOver, not InvalidMove
C6_Witness ==
    /\ result = "GameOver"
    /\ game.status = "Draw"
    /\ get_piece(game.board, lastMove[1].from) = None

\* C7: from a new game f2f3, e7e5, g2g4, d8h4 are each accepted, and after
\* the fourth the status is Checkmate(Black) and White has no legal move.
C7_FoolsMate ==
    (Lines[line] = FoolsMate /\ calls <= 4) =>
        /\ accepted = calls
        /\ calls = 4 => (game.status = "Checkmate(Black)" /\ get_legal_moves(game) = <<>>)

\* C8: to_fen() of a new game is the standard initial position, with the
\* white king on e1 and the black king on e8.
C8_InitialFen ==
    calls = 0 =>
        /\ to_fen(game) = "rnbqkbnr/pppppppp/8/8/8/8/PPPPPPPP/RNBQKBNR w KQkq - 0 1"
        /\ get_piece(game.board, At("e", 1)) = Some(Piece("King", White))
        /\ get_piece(game.board, At("e", 8)) = Some(Piece("King", Black))

\* C9: every make_move call on a reachable state, for any Move value,
\* returns Ok or a ChessError; it never aborts on a failed unwrap.
C9_NoPanic ==
    result # "Panic"

\* C10: in every state produced by an accepted move, halfmove_clock >= 50
\* implies status = Draw, also when the side to move is in check or has no
\* legal move.
C10_FiftyMoveDraw ==
    (result = "Ok" /\ game.halfmove_clock >= 50) => game.status = "Draw"

\* the fiftieth ply mates: the side to move is in check without a legal
\* move, and the status is Draw
C10_Witness ==
    /\ result = "Ok"
    /\ game.halfmove_clock = 50
    /\ game.status = "Draw"
    /\ is_in_check(game, game.current_player)
    /\ ~has_legal_moves(game)

\* the direction in which the pawns of a color advance
Forward(color) == IF color = White THEN 1 ELSE -1

\* the last call submitted Move::en_passant(from, to) for a pawn of the side
\* to move standing beside an opposing pawn, one step diagonally forward onto
\* the en-passant target that the previous ply left
EnPassantCaptureCase ==
    /\ lastMove # None
    /\ LET m == lastMove[1]
           mover == prev.current_player
       IN /\ m = MoveEnPassant(m.from, m.to)
          /\ get_piece(prev.board, m.from) = Some(Piece("Pawn", mover))
          /\ prev.en_passant_target = Some(m.to)
          /\ Abs(m.to.file - m.from.file) = 1
          /\ m.to.rank - m.from.rank = Forward(mover)
          /\ get_piece(prev.board, Sq(m.to.file, m.from.rank))
                = Some(Piece("Pawn", opposite(mover)))

\* the board after the last call is the board before it with the capturing
\* pawn on the skipped square, and its origin and the square of the
\* double-advanced pawn (capturer's origin rank, destination file) empty
EnPassantExecuted ==
    LET m == lastMove[1]
        taken == Sq(m.to.file, m.from.rank)
    IN \A s \in Squares :
          get_piece(game.board, s) =
             IF s = m.to THEN Some(Piece("Pawn", prev.current_player))
             ELSE IF s = m.from \/ s = taken THEN None
             ELSE get_piece(prev.board, s)

MovedPiece == get_piece(prev.board, lastMove[1].from)

\* the last call moved a pawn two ranks
TwoSquarePawnAdvance ==
    /\ MovedPiece # None
    /\ MovedPiece[1].piece_type = "Pawn"
    /\ Abs(lastMove[1].to.rank - lastMove[1].from.rank) = 2

\* the last call moved a pawn diagonally onto an empty square that is not the
\* en-passant target
StaleEnPassantCapture ==
    /\ lastMove # None
    /\ MovedPiece # None
    /\ MovedPiece[1].piece_type = "Pawn"
    /\ Abs(lastMove[1].to.file - lastMove[1].from.file) = 1
    /\ get_piece(prev.board, lastMove[1].to) = None
    /\ prev.en_passant_target # Some(lastMove[1].to)

\* C12: en_passant_target is Some(s) exactly when the last accepted move was
\* a two-square pawn advance, s being the square the pawn skipped; every
\* other accepted move sets it to None; a new game has none; and a diagonal
\* pawn move onto an empty square that is not the target is rejected.
C12_EnPassantTargetLifetime ==
    /\ calls = 0 => game.en_passant_target = None
    /\ result = "Ok" =>
          game.en_passant_target =
             IF TwoSquarePawnAdvance
             THEN Some(Sq(lastMove[1].from.file,
                          (lastMove[1].from.rank + lastMove[1].to.rank) \div 2))
             ELSE None
    /\ StaleEnPassantCapture => result \in ErrorKinds

\* the last call submitted the bare diagonal pawn move onto the en-passant
\* target, as built by Move::new or by MoveRequest::to_move without promotion
UnflaggedEnPassantCase ==
    /\ lastMove # None
    /\ prev.status \notin TerminalStatuses
    /\ LET m == lastMove[1]
           mover == prev.current_player
       IN /\ m = MoveNew(m.from, m.to)
          /\ m = to_move(m.from, m.to, None)
          /\ get_piece(prev.board, m.from) = Some(Piece("Pawn", mover))
          /\ prev.en_passant_target = Some(m.to)
          /\ Abs(m.to.file - m.from.file) = 1
          /\ m.to.rank - m.from.rank = Forward(mover)
          /\ get_piece(prev.board, Sq(m.to.file, m.from.rank))
                = Some(Piece("Pawn", opposite(mover)))

\* C13: make_move recognises an en-passant capture from its geometry.  The
\* diagonal pawn move onto the en-passant target built by Move::new or by
\* MoveRequest::to_move, is_en_passant unset, is treated like the flagged
\* capture: accepted unless it exposes the mover's king, and then executed
\* with the double-advanced pawn removed.
C13_EnPassantAutoDetected ==
    UnflaggedEnPassantCase =>
        /\ result = IF would_leave_king_in_check(prev,
                          MoveEnPassant(lastMove[1].from, lastMove[1].to))
                    THEN "KingInCheck" ELSE "Ok"
        /\ result = "Ok" => EnPassantExecuted

\* the home square of a color's king, where castling starts
KingHomeSquare(color) == IF color = White THEN Sq(4, 0) ELSE Sq(4, 7)

\* the last call submitted a king move with is_castling set
CastlingAttempt ==
    /\ lastMove # None
    /\ lastMove[1].is_castling
    /\ MovedPiece # None
    /\ MovedPiece[1].piece_type = "King"

\* the files strictly between two files
FilesBetween(f1, f2) == {f \in 0..7 : (f1 < f /\ f < f2) \/ (f2 < f /\ f < f1)}

\* the castling right that the attempted castling needs is revoked
CastlingRightRevoked ==
    LET m == lastMove[1]
        cr == prev.castling_rights
    IN IF MovedPiece[1].color = White
       THEN IF m.to.file > m.from.file THEN ~cr.white_kingside ELSE ~cr.white_queenside
       ELSE IF m.to.file > m.from.file THEN ~cr.black_kingside ELSE ~cr.black_queenside

\* a square between the king and the rook's corner is occupied
CastlingPathOccupied ==
    LET m == lastMove[1]
        corner == IF m.to.file > m.from.file THEN 7 ELSE 0
    IN \E f \in FilesBetween(m.from.file, corner) :
          get_piece(prev.board, Sq(f, m.from.rank)) # None

\* a square the king crosses, or the one it lands on, is attacked
CastlingPathAttacked ==
    LET m == lastMove[1]
    IN \E f \in FilesBetween(m.from.file, m.to.file) \cup {m.to.file} :
          is_square_attacked(prev.board, Sq(f, m.from.rank),
                             opposite(MovedPiece[1].color))

C15_CastlingEffect ==
    (result = "Ok" /\ lastMove[1].is_castling) =>
        LET m == lastMove[1]
            mover == prev.current_player
            kingside == m.to.file > m.from.file
            rook_from == Sq(IF kingside THEN 7 ELSE 0, m.from.rank)
            rook_to == Sq(IF kingside THEN 5 ELSE 3, m.from.rank)
        IN /\ m.from = KingHomeSquare(mover)
           /\ m.to = Sq(IF kingside THEN 6 ELSE 2, m.from.rank)
           /\ get_piece(prev.board, m.from) = Some(Piece("King", mover))
           /\ get_piece(prev.board, rook_from) = Some(Piece("Rook", mover))
           /\ get_piece(prev.board, m.to) = None
           /\ get_piece(prev.board, rook_to) = None
           /\ get_piece(game.board, m.to) = Some(Piece("King", mover))
           /\ get_piece(game.board, rook_to) = Some(Piece("Rook", mover))
           /\ get_piece(game.board, m.from) = None
           /\ get_piece(game.board, rook_from) = None

\* the last call submitted a move of a king of the side to move, is_castling
\* unset, in a game that is not over
PlainKingMove ==
    /\ lastMove # None
    /\ ~lastMove[1].is_castling
    /\ prev.status \notin TerminalStatuses
    /\ MovedPiece # None
    /\ MovedPiece[1] = Piece("King", prev.current_player)

\* C16: a king move of exactly two files with is_castling unset is rejected
\* with InvalidMove, the state unchanged (it is not carried out as castling);
\* a king move with is_castling unset is accepted only if it changes file and
\* rank by at most one each and is not a null move.
C16_PlainKingMove ==
    PlainKingMove =>
        LET file_diff == Abs(lastMove[1].to.file - lastMove[1].from.file)
            rank_diff == Abs(lastMove[1].to.rank - lastMove[1].from.rank)
        IN /\ file_diff = 2 => (result = "InvalidMove" /\ game = prev)
           /\ result = "Ok" =>
                 (file_diff <= 1 /\ rank_diff <= 1 /\ lastMove[1].from # lastMove[1].to)

\* the king on e1 with f1 and g1 empty: e1-g1 without the flag is rejected
C16_Witness ==
    /\ PlainKingMove
    /\ lastMove[1].from = KingHomeSquare(prev.current_player)
    /\ lastMove[1].to = Sq(6, lastMove[1].from.rank)
    /\ get_piece(prev.board, Sq(5, lastMove[1].from.rank)) = None
    /\ get_piece(prev.board, lastMove[1].to) = None
    /\ result = "InvalidMove"
    /\ game = prev

\* the names of the four castling rights
RightNames == {"white_kingside", "white_queenside", "black_kingside", "black_queenside"}

\* C17: castling rights never come back: a right that is false before a
\* make_move call is false after it, whatever the call does, so once false it
\* stays false for the rest of the game.
C17_RightsNeverReturn ==
    \A r \in RightNames : game.castling_rights[r] => prev.castling_rights[r]

\* the white king and its h1 rook stand on e1 and h1 again, the rights were
\* lost on the way there, and a further accepted move (the black king's, which
\* loses Black's rights) leaves them lost
C17_Witness ==
    /\ result = "Ok"
    /\ get_piece(game.board, At("e", 1)) = Some(Piece("King", White))
    /\ get_piece(game.board, At("h", 1)) = Some(Piece("Rook", White))
    /\ ~prev.castling_rights.white_kingside
    /\ ~game.castling_rights.white_kingside
    /\ prev.castling_rights.black_kingside
    /\ ~game.castling_rights.black_kingside

\* the rights left by a move of the given piece from the given square
RightsAfterMoveOf(cr, piece, from) ==
    LET home_rank == IF piece.color = White THEN 0 ELSE 7
        kingside == IF piece.color = White THEN "white_kingside" ELSE "black_kingside"
        queenside == IF piece.color = White THEN "white_queenside" ELSE "black_queenside"
    IN IF piece.piece_type = "King"
       THEN [cr EXCEPT ![kingside] = FALSE, ![queenside] = FALSE]
       ELSE IF piece.piece_type = "Rook" /\ from = Sq(7, home_rank)
       THEN [cr EXCEPT ![kingside] = FALSE]
       ELSE IF piece.piece_type = "Rook" /\ from = Sq(0, home_rank)
       THEN [cr EXCEPT ![queenside] = FALSE]
       ELSE cr

\* C18: an accepted king move clears both rights of its color; an accepted
\* move of a rook from its original home square clears only that side's
\* right of its color; an accepted move of any other piece, or of a rook
\* from any other square, leaves all four rights unchanged.
C18_RightsRevocation ==
    result = "Ok" =>
        game.castling_rights =
            RightsAfterMoveOf(prev.castling_rights, MovedPiece[1], lastMove[1].from)

\* C19: after an accepted move halfmove_clock is 0 if the moved piece was a
\* pawn (a pawn move that promotes included) or the move was an en-passant
\* capture, and the previous value plus 1 otherwise.
C19_HalfmoveClock ==
    result = "Ok" =>
        game.halfmove_clock =
            IF MovedPiece[1].piece_type = "Pawn" \/ lastMove[1].is_en_passant
            THEN 0
            ELSE prev.halfmove_clock + 1

\* C20: an accepted move that captures a piece, by a pawn or by any other
\* piece, resets halfmove_clock to 0.
C20_CaptureResetsClock ==
    (result = "Ok" /\ get_piece(prev.board, lastMove[1].to) # None) =>
        game.halfmove_clock = 0

\* C21: fullmove_number starts at 1, each accepted move of Black adds exactly
\* 1 to it, no accepted move of White and no rejected call changes it; so it
\* is 1 plus the number of accepted Black moves (accepted moves alternate,
\* White first: that number is accepted \div 2).
C21_FullmoveNumber ==
    result # "Panic" =>
        /\ calls = 0 => game.fullmove_number = 1
        /\ game.fullmove_number = 1 + (accepted \div 2)
        /\ result = "Ok" =>
              game.fullmove_number =
                 prev.fullmove_number + (IF prev.current_player = Black THEN 1 ELSE 0)
        /\ result \in ErrorKinds => game.fullmove_number = prev.fullmove_number

\* Black's third accepted move takes the number from 3 to 4
C21_Witness ==
    /\ result = "Ok"
    /\ prev.current_player = Black
    /\ accepted = 6
    /\ prev.fullmove_number = 3
    /\ game.fullmove_number = 4

\* some Move passes the legality and king-safety pipeline of make_move in g
\* (the candidates of has_legal_moves are tried first; they are among them)
PassesPipeline(g) ==
    \/ has_legal_moves(g)
    \/ \E from \in Squares :
          /\ get_piece(g.board, from) # None
          /\ get_piece(g.board, from)[1].color = g.current_player
          /\ \E to \in Squares, p \in PromotionInputs, c \in BOOLEAN, e \in BOOLEAN :
                validate_move(g, [from |-> from, to |-> to, promotion |-> p,
                                  is_castling |-> c, is_en_passant |-> e]) = "Ok"

\* C22: after every accepted move with halfmove_clock < 50 the status is
\* Checkmate(player who just moved) if the new side to move is in check and
\* has no legal move, Stalemate if it is not in check and has none, Check if
\* it is in check and has one, InProgress otherwise; it has a legal move when
\* some move passes the legality and king-safety pipeline of make_move.
C22_StatusRecomputed ==
    (result = "Ok" /\ game.halfmove_clock < 50) =>
        LET in_check == is_in_check(game, game.current_player)
            has_move == PassesPipeline(game)
        IN game.status =
              IF ~has_move
              THEN IF in_check THEN Checkmate(prev.current_player) ELSE "Stalemate"
              ELSE IF in_check THEN "Check" ELSE "InProgress"

\* the last call was made on a game that is not over
CallOnLiveGame == lastMove # None /\ prev.status \notin TerminalStatuses

\* C23: in a non-terminal state a move from an empty square fails with
\* InvalidMove; otherwise a move of a piece of the side not to move fails
\* with NotYourTurn, whatever its geometry; otherwise a geometry or occupancy
\* violation (a destination holding a piece of the mover's color included)
\* fails with InvalidMove; only a geometrically legal move of the side to
\* move fails with KingInCheck.
C23_ValidationOrder ==
    CallOnLiveGame =>
        LET m == lastMove[1]
            dest == get_piece(prev.board, m.to)
        IN /\ MovedPiece = None => result = "InvalidMove"
           /\ (MovedPiece # None /\ MovedPiece[1].color # prev.current_player)
                 => result = "NotYourTurn"
           /\ (/\ MovedPiece # None
               /\ MovedPiece[1].color = prev.current_player
               /\ \/ ~is_legal_move(prev, m, MovedPiece[1])
                  \/ (dest # None /\ dest[1].color = MovedPiece[1].color))
                 => result = "InvalidMove"
           /\ result = "KingInCheck" =>
                 /\ MovedPiece # None
                 /\ MovedPiece[1].color = prev.current_player
                 /\ is_legal_move(prev, m, MovedPiece[1])

\* a piece of the side not to move, asked to move as it never could:
\* NotYourTurn, not InvalidMove
C23_Witness ==
    /\ CallOnLiveGame
    /\ MovedPiece # None
    /\ MovedPiece[1].color # prev.current_player
    /\ ~is_legal_move(prev, lastMove[1], MovedPiece[1])
    /\ result = "NotYourTurn"

\* the promotion kinds of get_legal_moves, in its order
PromotionOrder == <<Some("Queen"), Some("Rook"), Some("Bishop"), Some("Knight")>>

\* the positions of the moves from `from` to `to` in ms, ascending
PositionsOf(ms, from, to) ==
    {i \in 1..Len(ms) : ms[i].from = from /\ ms[i].to = to}

\* the piece on `from` is a pawn and `to` lies on its farthest rank
ReachesFarthestRank(g, from, to) ==
    /\ get_piece(g.board, from)[1].piece_type = "Pawn"
    /\ to.rank = (IF get_piece(g.board, from)[1].color = White THEN 7 ELSE 0)

\* ms lists the legal move from -> to of g as C24 says: four times in a row
\* with the promotions in order for a pawn reaching its farthest rank, once
\* with promotion None otherwise, and not at all when it is not legal
ListedAsClaimed(g, ms, from, to) ==
    LET ps == PositionsOf(ms, from, to)
        c == Candidate(g, from, to)
    IN IF ~CandidatePasses(g, c) THEN ps = {}
       ELSE IF ReachesFarthestRank(g, from, to)
       THEN \E i \in 1..Len(ms) :
               /\ ps = i..(i + 3)
               /\ \A k \in 1..4 : ms[i + k - 1] = [c EXCEPT !.promotion = PromotionOrder[k]]
       ELSE \E i \in 1..Len(ms) : ps = {i} /\ ms[i] = c

\* C24: get_legal_moves returns each legal pawn move that lands on the
\* farthest rank as exactly four moves, promotion Queen, Rook, Bishop, Knight
\* in that order, and every other legal move exactly once with promotion
\* None; a king move of two files carries is_castling and a pawn move onto
\* the en-passant target carries is_en_passant.
C24_LegalMoveExpansion ==
    (result \in {"None", "Ok"} /\ ~get_legal_moves_panics(game)) =>
        LET ms == get_legal_moves(game)
        IN /\ \A from \in get_pieces(game.board, game.current_player) :
                 \A to \in Squares : ListedAsClaimed(game, ms, from, to)
           /\ \A i \in 1..Len(ms) :
                 LET piece == get_piece(game.board, ms[i].from)
                 IN /\ piece # None
                    /\ piece[1].color = game.current_player
                    /\ ms[i].is_castling =
                          (piece[1].piece_type = "King"
                           /\ Abs(ms[i].to.file - ms[i].from.file) = 2)
                    /\ ms[i].is_en_passant =
                          (piece[1].piece_type = "Pawn"
                           /\ game.en_passant_target = Some(ms[i].to))

\* the pawn on a7 may take on b8: the list holds a7-b8 four times in a row,
\* as queen, rook, bishop and knight promotion
C24_Witness ==
    /\ Lines[line] = PromotionLine
    /\ calls = Len(PromotionLine)
    /\ result = "Ok"
    /\ LET ms == get_legal_moves(game)
       IN \E i \in 1..(Len(ms) - 3) :
             \A k \in 1..4 :
                ms[i + k - 1] = [Mv("a", 7, "b", 8) EXCEPT !.promotion = PromotionOrder[k]]

\* the place of a move in the order of C25: origin in board-scan order
\* (rank, then file), then destination by rank, then file
ScanKey(m) == ((m.from.rank * 8 + m.from.file) * 8 + m.to.rank) * 8 + m.to.file

\* the place of a promotion kind in PromotionOrder; 0 for None
PromotionIndex(p) ==
    IF p = None THEN 0 ELSE CHOOSE k \in 1..4 : PromotionOrder[k] = p

\* C25: the moves returned by get_legal_moves are grouped by origin square
\* in board-scan order (rank 1 to 8, within a rank file a to h), within one
\* origin the destinations ascend by rank, then file, and the promotions of
\* one pawn move follow each other in their fixed order; the sequence is a
\* function of the state, so equal states give equal sequences.
C25_LegalMoveOrder ==
    (result \in {"None", "Ok"} /\ ~get_legal_moves_panics(game)) =>
        LET ms == get_legal_moves(game)
        IN \A i \in 1..(Len(ms) - 1) :
              \/ ScanKey(ms[i]) < ScanKey(ms[i + 1])
              \/ /\ ScanKey(ms[i]) = ScanKey(ms[i + 1])
                 /\ ms[i].promotion # None
                 /\ PromotionIndex(ms[i + 1].promotion) = PromotionIndex(ms[i].promotion) + 1

\* a list where a move from a lower rank and a higher file comes before a
\* move from the next origin, whose destinations then ascend by rank
C25_Witness ==
    /\ result = "Ok"
    /\ LET ms == get_legal_moves(game)
       IN \E i \in 1..(Len(ms) - 2) :
             /\ ms[i].from.rank < ms[i + 1].from.rank
             /\ ms[i].from.file > ms[i + 1].from.file
             /\ ms[i + 1].from = ms[i + 2].from
             /\ ms[i + 1].to.rank < ms[i + 2].to.rank

\* the last call submitted a move as MoveRequest::to_move builds it
RequestBuilt ==
    /\ lastMove # None
    /\ lastMove[1].promotion \in {None} \cup {Some(n) : n \in PromotionNames}
    /\ lastMove[1] = to_move(lastMove[1].from, lastMove[1].to, lastMove[1].promotion)

\* the last call left every square other than the origin and the destination
\* of its move as it was, the origin empty and a piece of the mover on the
\* destination
OnlyFromAndToChanged ==
    /\ \A s \in Squares \ {lastMove[1].from, lastMove[1].to} :
          get_piece(game.board, s) = get_piece(prev.board, s)
    /\ get_piece(game.board, lastMove[1].from) = None
    /\ get_piece(game.board, lastMove[1].to) # None
    /\ get_piece(game.board, lastMove[1].to)[1].color = prev.current_player

\* C26: a move built by MoveRequest::to_move has is_castling set only if the
\* piece on its source square is a king on e1 or e8 and the destination is
\* the g- or c-file square of the same rank; so an accepted request that
\* moves any other piece than a king is executed as an ordinary move.
C26_RequestCastlingFlag ==
    RequestBuilt =>
        /\ (lastMove[1].is_castling /\ MovedPiece # None) =>
              /\ MovedPiece[1].piece_type = "King"
              /\ lastMove[1].from = KingHomeSquare(MovedPiece[1].color)
              /\ lastMove[1].to.rank = lastMove[1].from.rank
              /\ lastMove[1].to.file \in {2, 6}
        /\ (result = "Ok" /\ MovedPiece[1].piece_type # "King") => OnlyFromAndToChanged

\* the text is a letter a-h followed by a digit 1-8
AlgebraicForm(text) ==
    /\ Len(text) = 2
    /\ text[1] \in 97..104
    /\ text[2] \in 49..56

\* C27: Square::new(f, r) succeeds iff f < 8 and r < 8; for a valid square s
\* to_algebraic(s) is a letter a-h followed by a digit 1-8 and
\* from_algebraic(to_algebraic(s)) = s; from_algebraic returns None for
\* every text of two chars that is not of that form.
C27_SquareRoundTrip ==
    /\ (input.kind = "new" /\ output.called) =>
          /\ ~output.panic
          /\ output.value # None <=> (input.file < 8 /\ input.rank < 8)
          /\ output.value # None =>
                /\ output.value = Some(Sq(input.file, input.rank))
                /\ AlgebraicForm(to_algebraic_chars(output.value[1]))
                /\ from_algebraic(to_algebraic_chars(output.value[1]))
                      = Returned(output.value)
    /\ (input.kind = "text" /\ output.called /\ Len(input.text) = 2) =>
          /\ ~output.panic
          /\ ~AlgebraicForm(input.text) => output.value = None
          /\ AlgebraicForm(input.text) =>
                output.value = Some(Sq(input.text[1] - 97, input.text[2] - 49))

\* the square (4, 3) written out as "e4" and read back
C27_Witness ==
    /\ input = [kind |-> "text", file |-> 4, rank |-> 3, text |-> <<101, 52>>]
    /\ output = Called(Returned(Some(Sq(4, 3))))

\* the number of kings of a color on the board
KingCount(b, color) ==
    Cardinality({s \in Squares : get_piece(b, s) = Some(Piece("King", color))})

\* C28: in every state reachable from a new game through make_move, with any
\* Move values, the board holds exactly one white king and exactly one black
\* king.
C28_KingUniqueness ==
    result \in {"None", "Ok"} \cup ErrorKinds =>
        (KingCount(game.board, White) = 1 /\ KingCount(game.board, Black) = 1)

\* the number of pieces of a color on the board
PieceCount(b, color) == Cardinality(get_pieces(b, color))

\* C29: an accepted move removes at most one piece from the board, that
\* piece belongs to the opponent of the mover, no piece of the mover's own
\* color disappears, and no piece is added.
C29_CaptureDiscipline ==
    result = "Ok" =>
        LET mover == prev.current_player
        IN /\ PieceCount(game.board, mover) = PieceCount(prev.board, mover)
           /\ PieceCount(game.board, opposite(mover))
                 \in {PieceCount(prev.board, opposite(mover)),
                      PieceCount(prev.board, opposite(mover)) - 1}

\* the squares an ordinary or en-passant move of the last call may change
OwnSquares ==
    {lastMove[1].from, lastMove[1].to, Sq(lastMove[1].to.file, lastMove[1].from.rank)}

\* C30: an accepted move that is neither castling nor en passant changes
\* only the contents of its from and to squares; an accepted move of a piece
\* that is not a king relocates no second piece, whatever its is_castling
\* field: it changes nothing outside its from and to squares and, when it is
\* an en-passant capture, the square of the captured pawn.
C30_MoveFrame ==
    result = "Ok" =>
        /\ (~lastMove[1].is_castling /\ ~lastMove[1].is_en_passant) =>
              OnlyFromAndToChanged
        /\ MovedPiece[1].piece_type # "King" =>
              \A s \in Squares \ OwnSquares :
                 get_piece(game.board, s) = get_piece(prev.board, s)

\* the last call moved a pawn of the side to move one step diagonally
\* forward onto the empty en-passant target, beside an opposing pawn
GenuineEnPassantCapture ==
    LET m == lastMove[1]
        mover == prev.current_player
    IN /\ MovedPiece = Some(Piece("Pawn", mover))
       /\ Abs(m.to.file - m.from.file) = 1
       /\ m.to.rank - m.from.rank = Forward(mover)
       /\ get_piece(prev.board, m.to) = None
       /\ prev.en_passant_target = Some(m.to)

\* the squares, other than the origin and the destination of the last move,
\* that held a piece before the call and are empty after it
RemovedElsewhere ==
    {s \in Squares \ {lastMove[1].from, lastMove[1].to} :
        get_piece(prev.board, s) # None /\ get_piece(game.board, s) = None}

\* C31: an accepted move (castling, which relocates a rook, set aside)
\* empties a square other than its origin and destination only if it is a
\* genuine en-passant capture, and the piece removed is then the opposing
\* pawn beside the capturer; an accepted move carrying is_en_passant that
\* is not such a capture removes nothing besides what stood on its
\* destination.
C31_EnPassantRemoval ==
    (result = "Ok" /\ ~lastMove[1].is_castling) =>
        \A s \in RemovedElsewhere :
            /\ GenuineEnPassantCapture
            /\ s = Sq(lastMove[1].to.file, lastMove[1].from.rank)
            /\ get_piece(prev.board, s) = Some(Piece("Pawn", game.current_player))

\* the statuses that end a game for want of a legal move
MatedStatuses == {"Checkmate(White)", "Checkmate(Black)", "Stalemate"}

\* C32: in every state after construction or an accepted move whose status
\* was not forced to Draw by the halfmove clock, the status is Checkmate or
\* Stalemate if and only if get_legal_moves() returns the empty list.
C32_StatusAgreesWithEnumeration ==
    (/\ result \in {"None", "Ok"}
     /\ game.halfmove_clock < 50
     /\ ~get_legal_moves_panics(game)) =>
        (game.status \in MatedStatuses <=> get_legal_moves(game) = <<>>)

\* the corner on which the rook of a color and side starts
RookHomeSquare(color, kingside) ==
    Sq(IF kingside THEN 7 ELSE 0, IF color = White THEN 0 ELSE 7)

\* the last call captured a rook of the side not to move on its corner while
\* that side still held the right of that corner
RookCapturedAtHome ==
    /\ result = "Ok"
    /\ \E kingside \in BOOLEAN :
          LET victim == game.current_player
              corner == RookHomeSquare(victim, kingside)
          IN /\ lastMove[1].to = corner
             /\ get_piece(prev.board, corner) = Some(Piece("Rook", victim))
             /\ can_castle(prev.castling_rights, victim, kingside)

\* the king of the color stands on the square from which is_legal_castling
\* lets it castle
KingAtHome(g, color) ==
    get_piece(g.board, KingHomeSquare(color)) = Some(Piece("King", color))

\* a rook of the color stands on the corner of that side
RookAtHome(g, color, kingside) ==
    get_piece(g.board, RookHomeSquare(color, kingside)) = Some(Piece("Rook", color))

\* C33: in every reachable state a castling right that is still held
\* implies that the king of that color stands on its home square and that a
\* rook of that color stands on the corner of that side; a right is no
\* longer held after the rook of its corner has been captured there.
C33_RightsImplyHomePlacement ==
    /\ \A color \in Color, kingside \in BOOLEAN :
          can_castle(game.castling_rights, color, kingside) =>
              (KingAtHome(game, color) /\ RookAtHome(game, color, kingside))
    /\ RookCapturedAtHome =>
          ~can_castle(game.castling_rights, game.current_player,
                      lastMove[1].to.file = 7)

\* the rank on which the pawns of a color promote
FarthestRank(color) == IF color = White THEN 7 ELSE 0

\* C34: after an accepted move (castling set aside) the piece on the
\* destination is the moved piece, of the same color, and of the same kind
\* unless it is a pawn arriving on its farthest rank, which becomes a Queen,
\* Rook, Bishop or Knight; a promotion kind carried for any other piece or
\* destination changes nothing; and no pawn stands on its farthest rank
\* after an accepted move.
C34_PromotionDiscipline ==
    (result = "Ok" /\ ~lastMove[1].is_castling) =>
        LET mover == MovedPiece[1]
            arrived == get_piece(game.board, lastMove[1].to)
            promotes == /\ mover.piece_type = "Pawn"
                        /\ lastMove[1].to.rank = FarthestRank(mover.color)
        IN /\ arrived # None
           /\ arrived[1].color = mover.color
           /\ IF promotes
              THEN arrived[1].piece_type \in PromotionNames
              ELSE arrived[1].piece_type = mover.piece_type
           /\ \A s \in Squares :
                 get_piece(game.board, s) # None =>
                    ~(/\ get_piece(game.board, s)[1].piece_type = "Pawn"
                      /\ s.rank = FarthestRank(get_piece(game.board, s)[1].color))

\* the rank on which the pawns of a color start
PawnHomeRank(color) == IF color = White THEN 1 ELSE 6

\* the last call was accepted and the piece it moved was a pawn
PawnMoveAccepted ==
    /\ result = "Ok"
    /\ MovedPiece[1].piece_type = "Pawn"

\* C35: an accepted pawn move, whatever its flags and promotion field, goes
\* one rank forward on its file onto an empty square, or two ranks forward
\* on its file from the pawn's home rank with the skipped square and the
\* destination empty, or one rank forward onto an adjacent file; so a pawn
\* never moves backward or sideways and a same-file move never captures.
C35_PawnPushes ==
    PawnMoveAccepted =>
        LET m == lastMove[1]
            color == MovedPiece[1].color
            file_diff == m.to.file - m.from.file
            rank_diff == m.to.rank - m.from.rank
        IN /\ file_diff = 0 =>
                /\ get_piece(prev.board, m.to) = None
                /\ \/ rank_diff = Forward(color)
                   \/ /\ rank_diff = 2 * Forward(color)
                      /\ m.from.rank = PawnHomeRank(color)
                      /\ get_piece(prev.board,
                                   Sq(m.from.file, m.from.rank + Forward(color))) = None
           /\ file_diff # 0 => (Abs(file_diff) = 1 /\ rank_diff = Forward(color))

\* a pawn advanced two squares from its home rank, carrying both flags
C35_Witness ==
    /\ PawnMoveAccepted
    /\ lastMove[1].to.file = lastMove[1].from.file
    /\ lastMove[1].to.rank - lastMove[1].from.rank = 2 * Forward(prev.current_player)
    /\ lastMove[1].is_castling
    /\ lastMove[1].is_en_passant

\* the last call submitted a move whose origin is its destination
NullMove == lastMove # None /\ lastMove[1].from = lastMove[1].to

\* C36 as stated: for every state and every move with from = to, whatever
\* its flags, make_move returns an error, InvalidMove when the square holds
\* a piece of the side to move, and leaves the state unchanged.
C36_NullMoveInvalid ==
    NullMove =>
        /\ result \in ErrorKinds
        /\ game = prev
        /\ (/\ MovedPiece # None
            /\ MovedPiece[1].color = prev.current_player) => result = "InvalidMove"

\* C36 amended: a move with from = to, whatever its flags, is answered with
\* GameOver when the game is over, otherwise with InvalidMove when the
\* square is empty or holds a piece of the side to move and NotYourTurn when
\* it holds a piece of the other side; the state is unchanged.
C36_NullMoveRejected ==
    NullMove =>
        /\ result = IF prev.status \in TerminalStatuses THEN "GameOver"
                    ELSE IF MovedPiece = None THEN "InvalidMove"
                    ELSE IF MovedPiece[1].color # prev.current_player THEN "NotYourTurn"
                    ELSE "InvalidMove"
        /\ game = prev

\* a rook of the side to move "moved" onto its own square, both flags and a
\* promotion kind set, in a game that is not over
C36_Witness ==
    /\ NullMove
    /\ prev.status \notin TerminalStatuses
    /\ MovedPiece = Some(Piece("Rook", prev.current_player))
    /\ lastMove[1].is_castling
    /\ lastMove[1].is_en_passant
    /\ lastMove[1].promotion = Some("Queen")
    /\ result = "InvalidMove"
    /\ game = prev

\* a task that has looked its game up holds the mutex, and the game in the
\* store is still the state it looked up
RequestsSerialized ==
    /\ \A t \in Tasks :
          tasks[t].pc \in {"locked", "found"} => mutex.holder = Some(t)
    /\ \A t \in Tasks :
          tasks[t].pc = "found" => games[tasks[t].game_id] = tasks[t].seen

\* C37: a task that has looked its game up holds the mutex, and the game in
\* the store is still the state it looked up when its make_move runs (two
\* requests for one game are applied one after the other); and the mutex is
\* never poisoned, so that lock().unwrap() of every later request succeeds.
C37_StoreSerialized ==
    /\ RequestsSerialized
    /\ ~mutex.poisoned

====
